---- MODULE Spec2Model ----
(***************************************************************************)
(* telemeter-reporter: SLIReporter.generate_report and                     *)
(* SLIReporter.format_report (src/telemeter_reporter/reporter.py).         *)
(*                                                                         *)
(* Time is counted in ticks, TicksPerDay ticks to the day.  Fractions and  *)
(* percentages are fixed-point numbers in units of 10^-5.  A Python value  *)
(* that may be None is a sequence: <<>> is None, <<v>> is the value v.     *)
(* A Python dict is a sequence of <<key, value>> pairs in insertion order. *)
(* A Python str that the code builds is a sequence of text pieces.         *)
(***************************************************************************)
EXTENDS Integers, Sequences, FiniteSets, TLC

(* ---------------- bounds of the model ---------------- *)

\* The longest list of clusters, the grain of time, the global duration of
\* config["global_vars"] and the duration a rule may have of its own (days),
\* and the lengths of config["rules"].
MaxClusters == 2
TicksPerDay == 2
GlobalDuration == 4
LocalDuration == 2
RuleCounts == {1, 2}

\* The oldest cluster, in days, that __adjust_duration is called on by itself.
MaxAgeDays == 41

\* The most calls of search_clusters on one UnifiedHybridClient.
MaxSearches == 3

(* ---------------- Python values ---------------- *)

None == <<>>
Some(v) == <<v>>
IsNone(o) == o = <<>>
Val(o) == o[1]

\* Python truthiness of an int-or-None: None and 0 are false.
Truthy(o) == o # None /\ Val(o) # 0

EmptyDict == <<>>
DictHas(d, k) == \E n \in 1..Len(d) : d[n][1] = k
DictGet(d, k) == d[CHOOSE n \in 1..Len(d) : d[n][1] = k][2]
\* d[k] = v: an existing key keeps its place, a new key goes last.
DictSet(d, k, v) ==
    IF DictHas(d, k)
    THEN [n \in 1..Len(d) |-> IF d[n][1] = k THEN <<k, v>> ELSE d[n]]
    ELSE Append(d, <<k, v>>)

\* {**f, **g}: on a key collision g's value stays.
Merge(f, g) ==
    [k \in (DOMAIN f) \cup (DOMAIN g) |-> IF k \in DOMAIN g THEN g[k] ELSE f[k]]

(* ---------------- inputs ---------------- *)

\* generate_report is given a query_time, so that effective_now is the same
\* in every call of __adjust_duration; config["global_vars"] is present.
QueryTime == 10 * TicksPerDay

\* Ages of a cluster at QueryTime, in ticks: created after QueryTime, less
\* than a day old, a day and a tick, three days and a tick, and exactly
\* GlobalDuration days.
Ages == {-1, 1, TicksPerDay + 1, 3 * TicksPerDay + 1, GlobalDuration * TicksPerDay}

\* uhc.Cluster (a NamedTuple); the external id is the place in the list.
Cluster(n, name, age) ==
    [id |-> n, name |-> name, external_id |-> n, creation_timestamp |-> QueryTime - age]

\* The clusters of a list: "a" at every age, and an old cluster whose own
\* name ends in the marker of a capped one.
ClusterChoices ==
    {<<"a", age>> : age \in Ages} \cup {<<"a*", GlobalDuration * TicksPerDay>>}

ClusterLists ==
    UNION {{[n \in 1..len |-> Cluster(n, picks[n][1], picks[n][2])] :
                picks \in [1..len -> ClusterChoices]} :
           len \in 1..MaxClusters}

RuleNames == <<"up", "api", "etcd">>
GoalOf == <<99000, 95000, 90000>>

\* A rule of config["rules"]: a dict with name, query, goal and the rule's
\* own variables.  The query template is the set of its ${placeholders}.
RuleKinds ==
    {[query |-> {"sel"}, local |-> None],
     [query |-> {"sel", "duration"}, local |-> None],
     [query |-> {"sel", "duration"}, local |-> Some(LocalDuration)]}

Rule(n, kind) ==
    LET base == [name |-> RuleNames[n], query |-> kind.query, goal |-> GoalOf[n]]
    IN IF IsNone(kind.local) THEN base
       ELSE Merge(base, [duration |-> Val(kind.local)])

RuleLists ==
    UNION {{[n \in 1..len |-> Rule(n, kinds[n])] : kinds \in [1..len -> RuleKinds]} :
           len \in RuleCounts}

GlobalVarsChoices == {<<>>, [duration |-> GlobalDuration]}

\* What pc.custom_query does: it raises, or returns a list of samples.
\* A sample's value is [timestamp, text]; the text is a number or it is not.
NumText(v) == [numeric |-> TRUE, val |-> v]
BadText == [numeric |-> FALSE]
OkFractions == {99500}
Responses ==
    {[raised |-> TRUE],
     [raised |-> FALSE, res |-> <<>>],
     [raised |-> FALSE, res |-> <<[metric |-> "m"]>>],
     [raised |-> FALSE, res |-> <<[metric |-> "m", value |-> <<QueryTime>>]>>],
     [raised |-> FALSE, res |-> <<[metric |-> "m", value |-> <<QueryTime, BadText>>]>>]}
    \cup {[raised |-> FALSE, res |-> <<[metric |-> "m", value |-> <<QueryTime, NumText(f)>>]>>] :
           f \in OkFractions}

(* ---------------- UnifiedHybridClient (uhc.py) ---------------- *)

\* Lines 41-49: the fields __init__ sets, the issuer and the audience being
\* read from the claims of the offline token.  The client has sent nothing
\* and returned nothing yet.
NewClient ==
    [api_url |-> "api", offline_token |-> "offline", iss_url |-> "iss",
     client_id |-> "cloud-services", calls |-> 0, requests |-> <<>>, returned |-> None]

\* What the issuer answers to a grant request: a body that is no JSON, a
\* JSON body without access_token, a JSON body with one.
Tokens == {"t1", "t2"}
TokenResponses ==
    {[json |-> FALSE], [json |-> TRUE, body |-> <<>>]}
    \cup {[json |-> TRUE, body |-> [access_token |-> t]] : t \in Tokens}

\* A cluster of data['items']; its creation_timestamp is a text of a day and
\* a tick of that day.
Item(n, day, tick) ==
    [id |-> n, name |-> "a", external_id |-> n, creation_timestamp |-> <<day, "T", tick, "Z">>]

ApiResponses ==
    {[status_code |-> 500],
     [status_code |-> 200, items |-> <<>>],
     [status_code |-> 200, items |-> <<Item(1, 3, 1)>>],
     [status_code |-> 200, items |-> <<Item(1, 3, 1), Item(2, 9, 0)>>]}

\* Lines 56-60: the requests __get_access_token sends on a call.
GrantRequestsOnce(client) ==
    IF client.calls = 0
    THEN <<[method |-> "POST", url |-> <<client.iss_url, "/protocol/openid-connect/token">>,
            grant_type |-> "refresh_token", client_id |-> client.client_id,
            refresh_token |-> client.offline_token]>>
    ELSE <<>>

GrantRequests(client) ==
    <<[method |-> "POST", url |-> <<client.iss_url, "/protocol/openid-connect/token">>,
       grant_type |-> "refresh_token", client_id |-> client.client_id,
       refresh_token |-> client.offline_token]>>

\* Lines 61-67: response.json()["access_token"]; a body that is no JSON
\* raises, a body without the key makes the method return None.
GetAccessToken(response) ==
    IF ~response.json THEN [raised |-> TRUE]
    ELSE IF "access_token" \in DOMAIN response.body
    THEN [raised |-> FALSE, token |-> Some(response.body["access_token"])]
    ELSE [raised |-> FALSE, token |-> None]

\* Lines 80-83: the GET of the clusters with the bearer token.
ClustersRequest(client, token, query) ==
    [method |-> "GET", url |-> <<client.api_url, "/api/clusters_mgmt/v1/clusters">>,
     Authorization |-> <<"Bearer ", token>>, search |-> query]

\* Lines 95-96: strptime of the timestamp text, as ticks.
ParseTimestamp(text) == text[1] * TicksPerDay + text[3]

\* Lines 91-101: a Cluster for each item.
ClusterList(items) ==
    [n \in 1..Len(items) |->
        [id |-> items[n].id, name |-> items[n].name, external_id |-> items[n].external_id,
         creation_timestamp |-> ParseTimestamp(items[n].creation_timestamp)]]

Raised(exception) == [raised |-> exception]
Returns(value) == [value |-> value]

(* ---------------- state ---------------- *)

VARIABLES
    clusters,              \* generate_report's argument: the caller's list
    rules,                 \* config["rules"]
    global_vars,           \* config["global_vars"]
    adjust_duration,       \* generate_report's argument
    pc,                    \* "cluster", "rule", "returned", "raised", "formatted"
    i,                     \* place of the outer loop in clusters
    j,                     \* place of the inner loop in rules
    cluster,               \* the loop variable, after a possible _replace
    new_cluster_duration,  \* the cap of the global duration, or None
    raw_report,            \* the matrix under construction
    queries,               \* the calls of pc.custom_query so far
    report,                \* what format_report returned, or None
    first_keys,            \* the keys of the matrix an earlier call of
                           \* generate_report returned for this list, or None
    uhc                    \* the UnifiedHybridClient: its fields, the HTTP
                           \* requests it has sent, what its last call returned

vars == <<clusters, rules, global_vars, adjust_duration, pc, i, j, cluster,
          new_cluster_duration, raw_report, queries, report, first_keys, uhc>>

(* ---------------- the Duration Adjuster ---------------- *)

\* timedelta.days: whole days, rounded down (also below zero).
Days(ticks) == ticks \div TicksPerDay

\* Lines 124-128; a call that falls off the end of the function returns None.
AdjustDurationInclusive(duration, query_time, creation_timestamp) ==
    LET effective_now == query_time
        duration_start == effective_now - duration * TicksPerDay
    IN IF duration_start <= creation_timestamp
       THEN Some(Days(effective_now - creation_timestamp))
       ELSE None

AdjustDuration(duration, query_time, creation_timestamp) ==
    LET effective_now == query_time
        duration_start == effective_now - duration * TicksPerDay
    IN IF duration_start < creation_timestamp
       THEN Some(Days(effective_now - creation_timestamp))
       ELSE None

(* ---------------- generate_report ---------------- *)

Selector(c) == <<"_id='", c.external_id, "'">>

\* Lines 151-155: the cap of the global duration for this cluster.
ClusterCap(c) ==
    IF adjust_duration /\ "duration" \in DOMAIN global_vars
    THEN AdjustDuration(global_vars["duration"], QueryTime, c.creation_timestamp)
    ELSE None

\* Line 161: cluster._replace(name=cluster.name + '*') builds a new tuple.
Starred(c) == [c EXCEPT !.name = c.name \o "*"]

\* Lines 169-171: global vars, then the rule's items but its query, then sel.
BaseParams(rule, selector) ==
    Merge(Merge(global_vars, [k \in (DOMAIN rule) \ {"query"} |-> rule[k]]),
          [sel |-> selector])

\* Lines 177-178: the cluster's cap replaces any duration.
CappedParams(params, cap) ==
    IF Truthy(cap) THEN Merge(params, [duration |-> Val(cap)]) ELSE params

\* Lines 182-187: the duration in effect is adjusted once more.
RuleCap(params, c) ==
    IF adjust_duration /\ "duration" \in DOMAIN params
    THEN AdjustDuration(params["duration"], QueryTime, c.creation_timestamp)
    ELSE None

QueryParams(rule, c, cap) ==
    LET capped == CappedParams(BaseParams(rule, Selector(c)), cap)
        new_rule_duration == RuleCap(capped, c)
    IN IF Truthy(new_rule_duration)
       THEN Merge(capped, [duration |-> Val(new_rule_duration)])
       ELSE capped

\* Line 195: Template(rule["query"]).substitute raises KeyError on a
\* placeholder that query_params does not bind.
CanSubstitute(rule, params) == rule["query"] \subseteq DOMAIN params
Substitute(rule, params) == [p \in rule["query"] |-> params[p]]

\* Lines 210-211: float(query_res[0]["value"][1]) * 100, or the exception.
ParseFloat(text) == IF text.numeric THEN Some(text.val) ELSE None
Sli(resp) ==
    IF resp.raised THEN None
    ELSE IF Len(resp.res) = 0 THEN None
    ELSE IF "value" \notin DOMAIN resp.res[1] THEN None
    ELSE IF Len(resp.res[1]["value"]) < 2 THEN None
    ELSE IF IsNone(ParseFloat(resp.res[1]["value"][2])) THEN None
    ELSE Some(Val(ParseFloat(resp.res[1]["value"][2])) * 100)

\* Lines 196, 210, 213: the cell of a rule once its query has been answered.
ScoredWithoutNone(goal, sli) ==
    IF IsNone(sli) THEN [goal |-> goal] ELSE [goal |-> goal, sli |-> sli]
Scored(goal, sli) == [goal |-> goal, sli |-> sli]

\* Line 212: except Exception catches whatever the try block raised.
CaughtOnlyClientErrors(resp) == resp.raised
Caught(resp) == TRUE

(* ---------------- __format_sli ---------------- *)

\* 1.0 in fixed point, and the step of the third decimal place.
One == 10^5
Milli == One \div 1000

caution_threshold == 1000

Digit(d) == <<"0", "1", "2", "3", "4", "5", "6", "7", "8", "9">>[d + 1]

RECURSIVE DigitsOf(_)
DigitsOf(n) == IF n < 10 THEN <<Digit(n)>> ELSE DigitsOf(n \div 10) \o <<Digit(n % 10)>>

RECURSIVE Padded(_, _)
Padded(n, width) ==
    IF width = 0 THEN <<>> ELSE Padded(n \div 10, width - 1) \o <<Digit(n % 10)>>

Take(text, n) == SubSeq(text, 1, IF Len(text) < n THEN Len(text) ELSE n)

\* The exact halves of a thousandth among the values of the model whose
\* nearest binary float lies above them: 0.0005 and 99.9885.  The others lie
\* below (99.9875, 99.9995) or are floats themselves, with an even third
\* decimal below them (0.0625).
HalvesStoredAbove == {50, 9998850}

\* '{:0.3f}'.format(value) for value >= 0: the multiple of 0.001 nearest to
\* the float, and of two equally near ones the even one.
ThousandthsTruncated(value) == value \div Milli
Thousandths(value) ==
    LET low == value \div Milli
        rest == value % Milli
    IN IF 2 * rest > Milli \/ (2 * rest = Milli /\ value \in HalvesStoredAbove)
       THEN low + 1 ELSE low

Fixed3(value) ==
    LET n == Thousandths(value)
        frac == n % 1000
    IN DigitsOf(n \div 1000) \o <<".">> \o Padded(frac, 3)

\* Line 359: '{:0.3f}'.format(value)[:6]
RoundedSli(value) == Take(Fixed3(value), 6)

\* str(value) of a float that is 0 or at least 0.0001: the shortest decimal,
\* with at least one place after the point.
RECURSIVE Trimmed(_, _)
Trimmed(frac, width) ==
    IF width > 1 /\ frac % 10 = 0 THEN Trimmed(frac \div 10, width - 1)
    ELSE Padded(frac, width)

StrFloat(value) == DigitsOf(value \div One) \o <<".">> \o Trimmed(value % One, 5)

\* A template of str.format: the text before {} and the text after it;
\* hole is FALSE for a template without {}.
Template(pre, hole, post) == [pre |-> pre, hole |-> hole, post |-> post]
Format(t, arg) == t.pre \o (IF t.hole THEN arg ELSE <<>>) \o t.post

Dashes == Template(<<"-", "-">>, FALSE, <<>>)
HtmlSpan(class) == Template(<<"<span class='", class, "'>">>, TRUE, <<"&#37;", "</span>">>)
ShellColor(code) == Template(<<"ESC[", code, "m">>, TRUE, <<"%", "ESC[0m">>)
HtmlPlain == Template(<<>>, TRUE, <<"&#37;">>)
ShellPlain == Template(<<>>, TRUE, <<"%">>)

\* The pairs (value, goal) of the model whose float difference value - goal
\* is smaller than their decimal difference: 50.01 - 50.0 is
\* 0.00999999999999801, while 96.01 - 96.0 is 0.010000000000005116.
DifferencesStoredBelow == {<<5001000, 5000000>>}

\* Line 349: value - goal < cls.caution_threshold, of floats.  The error of
\* the float difference decides the comparison only when the decimal
\* difference is the threshold itself.
UnderCautionThreshold(value, goal) ==
    \/ value - goal < caution_threshold
    \/ value - goal = caution_threshold /\ <<value, goal>> \in DifferencesStoredBelow

\* Lines 341-357: the pair (html_template, shell_template).
Templates(value, goal, color) ==
    IF IsNone(value) THEN <<Dashes, Dashes>>
    ELSE IF color
    THEN IF Val(value) - Val(goal) < 0
         THEN <<HtmlSpan("danger"), ShellColor("1;31")>>
         ELSE IF UnderCautionThreshold(Val(value), Val(goal))
         THEN <<HtmlSpan("caution"), ShellColor("1;33")>>
         ELSE <<HtmlSpan("success"), ShellColor("0;32")>>
    ELSE <<HtmlPlain, ShellPlain>>

\* Lines 341-365.  fmt is None or Some(name); value None becomes the int 0.
FormatSli(value, goal, fmt, color) ==
    LET number == IF IsNone(value) THEN 0 ELSE Val(value)
        pair == Templates(value, goal, color)
        rounded_sli == RoundedSli(number)
    IN IF fmt = Some("html") THEN Format(pair[1], rounded_sli)
       ELSE IF fmt # None THEN Format(pair[2], rounded_sli)
       ELSE IF IsNone(value) THEN <<"0">> ELSE StrFloat(number)

(* ---------------- format_report ---------------- *)

KnownFormats == {"plain", "simple", "grid", "fancy_grid", "html", "csv"}
Formats == KnownFormats \cup {"json"}

\* Lines 263, 265: fmt if fmt != 'csv' else None
CellFmt(fmt) == IF fmt # "csv" THEN Some(fmt) ELSE None

\* Lines 261-266: the goal cell and the sli cell of one rule.
CellPair(scores, fmt, color) ==
    LET sli_f == FormatSli(scores["sli"], Some(scores["goal"]), CellFmt(fmt), color)
        goal_f == FormatSli(Some(scores["goal"]), None, CellFmt(fmt), FALSE)
    IN <<goal_f, sli_f>>

RECURSIVE RowCells(_, _, _)
RowCells(entries, fmt, color) ==
    IF Len(entries) = 0 THEN <<>>
    ELSE CellPair(entries[1][2], fmt, color)
         \o RowCells(Tail(entries), fmt, color)

\* Lines 258-267: one row for each key of raw_report.
Table(matrix, fmt, color) ==
    [n \in 1..Len(matrix) |->
        <<<<matrix[n][1]>>>> \o RowCells(matrix[n][2], fmt, color)]

\* Lines 239-241: generate_headers without tooltips.
RECURSIVE HeaderPairs(_)
HeaderPairs(rs) ==
    IF Len(rs) = 0 THEN <<>>
    ELSE <<<<rs[1]["name"], " Goal">>, <<rs[1]["name"], " Perf.">>>> \o HeaderPairs(Tail(rs))

GenerateHeaders(rs) == <<<<"Cluster">>>> \o HeaderPairs(rs)

\* Lines 268-281.  tabulate lays a table out in the format of its tablefmt
\* name and, for a name it does not know, in its "simple" format.
TabulateFormat(fmt) ==
    IF fmt \in KnownFormats \ {"csv"} THEN fmt ELSE "simple"

Rendered(headers, table, fmt) ==
    IF fmt = "csv" THEN [kind |-> "csv", rows |-> <<headers>> \o table]
    ELSE IF fmt = "html"
    THEN [kind |-> "html", tablefmt |-> TabulateFormat(fmt), rows |-> <<headers>> \o table]
    ELSE [kind |-> "text", tablefmt |-> TabulateFormat(fmt), rows |-> <<headers>> \o table]

Init ==
    /\ clusters \in ClusterLists
    /\ rules \in RuleLists
    /\ global_vars \in GlobalVarsChoices
    /\ adjust_duration \in BOOLEAN
    /\ pc = "cluster"
    /\ i = 1
    /\ j = 1
    /\ cluster = clusters[1]
    /\ new_cluster_duration = None
    /\ raw_report = EmptyDict
    /\ queries = <<>>
    /\ report = None
    /\ first_keys = None
    /\ uhc = NewClient

\* Lines 146, 161: the caller's list after the loop variable has been bound
\* to the tuple that _replace built; the list keeps the tuple it had.
CallersListRenamed(list, n, named) == [list EXCEPT ![n] = named]

CallersList(list, n, named) == list

\* Lines 146-163: the head of the outer loop.
BeginCluster ==
    /\ pc = "cluster"
    /\ LET c == clusters[i]
           cap == ClusterCap(c)
           named == IF Truthy(cap) THEN Starred(c) ELSE c
       IN /\ new_cluster_duration' = cap
          /\ cluster' = named
          /\ clusters' = CallersList(clusters, i, named)
          /\ raw_report' = DictSet(raw_report, named.name, EmptyDict)
    /\ j' = 1
    /\ pc' = "rule"
    /\ UNCHANGED <<rules, global_vars, adjust_duration, i, queries, report, first_keys, uhc>>

\* Where the loops stand after the body of rule j of cluster i.
AfterRuleOneCluster ==
    IF j < Len(rules) THEN <<"rule", i, j + 1>>
    ELSE <<"returned", i, j>>

AfterRule ==
    IF j < Len(rules) THEN <<"rule", i, j + 1>>
    ELSE IF i < Len(clusters) THEN <<"cluster", i + 1, 1>>
    ELSE <<"returned", i, j>>

\* Lines 165-217: the body of the inner loop for rule j.
ResolveRule ==
    /\ pc = "rule"
    /\ LET rule == rules[j]
           name == cluster.name
           params == QueryParams(rule, cluster, new_cluster_duration)
           opened == DictSet(DictGet(raw_report, name), rule["name"], <<>>)
       IN IF ~CanSubstitute(rule, params)
          THEN \* KeyError leaves generate_report: no matrix is returned
               /\ raw_report' = DictSet(raw_report, name, opened)
               /\ pc' = "raised"
               /\ UNCHANGED <<i, j, queries>>
          ELSE \E resp \in Responses :
               LET query == Substitute(rule, params)
                   goal == rule["goal"] * 100
                   sli == Sli(resp)
                   failed == IsNone(sli)
                   call == [cluster |-> i, rule |-> j, key |-> name, query |-> query,
                            failed |-> failed]
               IN IF failed /\ ~Caught(resp)
                  THEN /\ raw_report' =
                            DictSet(raw_report, name,
                                    DictSet(opened, rule["name"], [goal |-> goal]))
                       /\ queries' = Append(queries, call)
                       /\ pc' = "raised"
                       /\ UNCHANGED <<i, j>>
                  ELSE /\ raw_report' =
                            DictSet(raw_report, name,
                                    DictSet(opened, rule["name"], Scored(goal, sli)))
                       /\ queries' = Append(queries, call)
                       /\ pc' = AfterRule[1]
                       /\ i' = AfterRule[2]
                       /\ j' = AfterRule[3]
    /\ UNCHANGED <<clusters, rules, global_vars, adjust_duration, cluster,
                   new_cluster_duration, report, first_keys, uhc>>

Next == BeginCluster \/ ResolveRule

Spec == Init /\ [][Next]_vars

(* ---------------- a run: generate_report, then format_report ---------------- *)

\* Lines 243-281, called with the matrix generate_report returned.
FormatReport ==
    /\ pc = "returned"
    /\ \E fmt \in Formats, color \in BOOLEAN :
         report' = Some([fmt |-> fmt, color |-> color,
                         out |-> Rendered(GenerateHeaders(rules),
                                          Table(raw_report, fmt, color), fmt)])
    /\ pc' = "formatted"
    /\ UNCHANGED <<clusters, rules, global_vars, adjust_duration, i, j, cluster,
                   new_cluster_duration, raw_report, queries, first_keys, uhc>>

NextRun == BeginCluster \/ ResolveRule \/ FormatReport

SpecRun == Init /\ [][NextRun]_vars

(* ---------------- format_report on a matrix of one cell ---------------- *)

\* Percentages a cell may hold: 99.98765, exact halves of a thousandth,
\* values that round up to 100.000, values of 100 and more, and values at,
\* just under and 0.01 over a goal.
ShownValues ==
    {0, 50, 6250, 950000, 5001000, 9500000, 9600000, 9600500, 9600999, 9601000,
     9700000, 9998750, 9998765, 9998850, 9999949, 9999950, 9999951, 10000000,
     12345670}
ShownGoals == {5000000, 9600000, 9900000}

InitFmt ==
    /\ clusters = <<Cluster(1, "a", GlobalDuration * TicksPerDay)>>
    /\ rules = <<Rule(1, [query |-> {"sel"}, local |-> None])>>
    /\ global_vars = <<>>
    /\ adjust_duration = TRUE
    /\ pc = "returned"
    /\ i = 1
    /\ j = 1
    /\ cluster = clusters[1]
    /\ new_cluster_duration = None
    /\ \E goal \in ShownGoals, sli \in {None} \cup {Some(v) : v \in ShownValues} :
         raw_report = <<<<"a", <<<<"up", [goal |-> goal, sli |-> sli]>>>>>>>>
    /\ queries = <<>>
    /\ report = None
    /\ first_keys = None
    /\ uhc = NewClient

NextFmt == FormatReport

SpecFmt == InitFmt /\ [][NextFmt]_vars

(* ---------------- __adjust_duration on one cluster ---------------- *)

\* Requested durations in days, and ages in ticks from a day in the future
\* to MaxAgeDays days.
RequestedDurations == {0, 1, LocalDuration, GlobalDuration, 28}
AdjustedAges == (0 - TicksPerDay)..(MaxAgeDays * TicksPerDay)

InitAdjust ==
    /\ \E age \in AdjustedAges : clusters = <<Cluster(1, "a", age)>>
    /\ rules = <<Rule(1, [query |-> {"sel"}, local |-> None])>>
    /\ \E duration \in RequestedDurations : global_vars = [duration |-> duration]
    /\ adjust_duration = TRUE
    /\ pc = "adjust"
    /\ i = 1
    /\ j = 1
    /\ cluster = clusters[1]
    /\ new_cluster_duration = None
    /\ raw_report = EmptyDict
    /\ queries = <<>>
    /\ report = None
    /\ first_keys = None
    /\ uhc = NewClient

\* Lines 152-155: the call of __adjust_duration with the global duration.
AdjustCall ==
    /\ pc = "adjust"
    /\ new_cluster_duration' =
           AdjustDuration(global_vars["duration"], QueryTime, cluster.creation_timestamp)
    /\ pc' = "adjusted"
    /\ UNCHANGED <<clusters, rules, global_vars, adjust_duration, i, j, cluster,
                   raw_report, queries, report, first_keys, uhc>>

NextAdjust == AdjustCall

SpecAdjust == InitAdjust /\ [][NextAdjust]_vars

(* ---------------- generate_report with colliding variables ---------------- *)

\* Variables of a rule and of config["global_vars"] that share their names
\* with each other and with the computed selector.
RuleVarsChoices ==
    {<<>>,
     [duration |-> LocalDuration],
     [job |-> <<"rule job">>],
     [sel |-> <<"rule sel">>],
     [duration |-> LocalDuration, job |-> <<"rule job">>, sel |-> <<"rule sel">>]}

GlobalVarsWithSel ==
    {[job |-> <<"global job">>],
     [duration |-> GlobalDuration, job |-> <<"global job">>],
     [duration |-> GlobalDuration, job |-> <<"global job">>, sel |-> <<"global sel">>]}

VarRule(local_vars) ==
    Merge([name |-> RuleNames[1], query |-> {"sel", "duration", "job"}, goal |-> GoalOf[1]],
          local_vars)

InitVars ==
    /\ \E age \in Ages : clusters = <<Cluster(1, "a", age)>>
    /\ \E local_vars \in RuleVarsChoices : rules = <<VarRule(local_vars)>>
    /\ global_vars \in GlobalVarsWithSel
    /\ adjust_duration \in BOOLEAN
    /\ pc = "cluster"
    /\ i = 1
    /\ j = 1
    /\ cluster = clusters[1]
    /\ new_cluster_duration = None
    /\ raw_report = EmptyDict
    /\ queries = <<>>
    /\ report = None
    /\ first_keys = None
    /\ uhc = NewClient

SpecVars == InitVars /\ [][Next]_vars

(* ---------------- generate_report twice on one list ---------------- *)

Keys(d) == [n \in 1..Len(d) |-> d[n][1]]

InitAgain ==
    /\ Init
    /\ Len(rules) = 1

\* The caller keeps the keys of the returned matrix and calls
\* generate_report once more with the list it passed in before.
RunAgain ==
    /\ pc = "returned"
    /\ first_keys = None
    /\ first_keys' = Some(Keys(raw_report))
    /\ pc' = "cluster"
    /\ i' = 1
    /\ j' = 1
    /\ cluster' = clusters[1]
    /\ new_cluster_duration' = None
    /\ raw_report' = EmptyDict
    /\ queries' = <<>>
    /\ UNCHANGED <<clusters, rules, global_vars, adjust_duration, report, uhc>>

NextAgain == BeginCluster \/ ResolveRule \/ RunAgain

SpecAgain == InitAgain /\ [][NextAgain]_vars

(* ---------------- search_clusters on one client ---------------- *)

InitClient ==
    /\ clusters = <<>>
    /\ rules = <<Rule(1, [query |-> {"sel"}, local |-> None])>>
    /\ global_vars = <<>>
    /\ adjust_duration = TRUE
    /\ pc = "client"
    /\ i = 1
    /\ j = 1
    /\ cluster = None
    /\ new_cluster_duration = None
    /\ raw_report = EmptyDict
    /\ queries = <<>>
    /\ report = None
    /\ first_keys = None
    /\ uhc = NewClient

\* Lines 69-101: one call of search_clusters.  The headers of the GET are
\* built first, and with them __get_access_token is called; "Bearer " + None
\* is a TypeError.
SearchClusters ==
    /\ uhc.calls < MaxSearches
    /\ \E token_response \in TokenResponses, response \in ApiResponses :
         LET granted == uhc.requests \o GrantRequests(uhc)
             access == GetAccessToken(token_response)
             get == ClustersRequest(uhc, Val(access.token), "q")
             done(requests, returned) ==
                 [uhc EXCEPT !.calls = @ + 1, !.requests = requests, !.returned = returned]
         IN IF access.raised THEN uhc' = done(granted, Some(Raised("ValueError")))
            ELSE IF IsNone(access.token)
            THEN uhc' = done(granted, Some(Raised("TypeError")))
            ELSE IF response.status_code = 200
            THEN uhc' = done(Append(granted, get), Some(Returns(ClusterList(response.items))))
            ELSE uhc' = done(Append(granted, get), Some(Raised("Exception")))
    /\ UNCHANGED <<clusters, rules, global_vars, adjust_duration, pc, i, j, cluster,
                   new_cluster_duration, raw_report, queries, report, first_keys>>

NextClient == SearchClusters

SpecClient == InitClient /\ [][NextClient]_vars

(* ---------------- what a report shows ---------------- *)

DigitChars == {Digit(d) : d \in 0..9}
IsNumberChar(c) == c \in DigitChars \cup {"."}
DigitValue(c) == CHOOSE d \in 0..9 : Digit(d) = c

\* The digits and the point of a cell, without the markup around them.
NumberText(text) == SelectSeq(text, IsNumberChar)

PointAt(text) == CHOOSE n \in 1..Len(text) : text[n] = "."

RECURSIVE NumberOf(_)
NumberOf(digits) ==
    IF Len(digits) = 0 THEN 0
    ELSE 10 * NumberOf(SubSeq(digits, 1, Len(digits) - 1)) + DigitValue(digits[Len(digits)])

Power10(n) == 10^n

\* The fixed-point number a text of digits with one point stands for.
ValueOfText(text) ==
    LET p == PointAt(text)
        places == Len(text) - p
    IN NumberOf(SubSeq(text, 1, p - 1)) * One
       + NumberOf(SubSeq(text, p + 1, Len(text))) * (One \div Power10(places))

\* The one cell pair of the matrix of SpecFmt, and what was shown for it.
TheScores == raw_report[1][2][1][2]
TheRow == Val(report).out.rows[2]
ShownGoal == TheRow[2]
ShownSli == TheRow[3]
Formatted == pc = "formatted"

(* ---------------- the claims ---------------- *)

Last(seq) == seq[Len(seq)]
AgeOf(c) == QueryTime - c.creation_timestamp
CellOf(matrix, key, rule_name) == DictGet(DictGet(matrix, key), rule_name)
Returned == pc = "returned"

\* C1: a query that fails in any way (the client raises, the result list is
\* empty, the sample is malformed, the value is no number) leaves sli = None
\* in its cell and the loops go on to the next (cluster, rule) pair; a
\* returned matrix has had every pair queried, and a run that was left by
\* an exception was not left by the exception of a query.
C1_FailedQueryStep ==
    (Len(queries') = Len(queries) + 1 /\ Last(queries').failed) =>
        /\ pc' # "raised"
        /\ LET cell == CellOf(raw_report', cluster.name, rules[j]["name"])
           IN "sli" \in DOMAIN cell /\ IsNone(cell["sli"])
        /\ IF j < Len(rules) THEN pc' = "rule" /\ i' = i /\ j' = j + 1
           ELSE IF i < Len(clusters) THEN pc' = "cluster" /\ i' = i + 1
           ELSE pc' = "returned"

C1_AllPairsQueried ==
    Returned =>
        \A ci \in 1..Len(clusters), rj \in 1..Len(rules) :
            \E n \in 1..Len(queries) : queries[n].cluster = ci /\ queries[n].rule = rj

C1_NoQueryLeaves ==
    pc = "raised" =>
        ~\E n \in 1..Len(queries) : queries[n].cluster = i /\ queries[n].rule = j

C1_QueryFailuresAreNotFatal ==
    /\ [][C1_FailedQueryStep]_vars
    /\ [](C1_AllPairsQueried /\ C1_NoQueryLeaves)

C1_Witness ==
    /\ Returned
    /\ Len(queries) = Len(clusters) * Len(rules)
    /\ Len(queries) > 2
    /\ queries[1].failed
    /\ ~Last(queries).failed
    /\ IsNone(CellOf(raw_report, queries[1].key, rules[1]["name"])["sli"])

\* A placeholder of the rule's template that nothing binds: not the global
\* vars, not the rule's own items, not sel, not a cap of the duration.
Unbound(rule) ==
    \E p \in rule["query"] :
        /\ p \notin DOMAIN global_vars
        /\ p \notin DOMAIN rule
        /\ p # "sel"

\* C2: a rule whose template has a placeholder that no variable binds does
\* not end the report: generate_report is never left by an exception while
\* it works on such a rule.
C2_UnboundPlaceholderIsNotFatal == ~(pc = "raised" /\ Unbound(rules[j]))

\* C3: with adjust_duration on, no query that carries a duration reaches
\* back before the creation of its cluster.
C3_WindowStartsAfterCreation ==
    \A n \in 1..Len(queries) :
        (adjust_duration /\ "duration" \in DOMAIN queries[n].query) =>
            QueryTime - queries[n].query["duration"] * TicksPerDay
                >= clusters[queries[n].cluster].creation_timestamp

\* C4: with adjust_duration on and a global duration, a cluster younger than
\* the global duration is reported under its name + "*" and every query for
\* it that carries a duration carries the whole days of its age.
C4_CorrectionIsAlwaysApplied ==
    \A n \in 1..Len(queries) :
        LET c == clusters[queries[n].cluster]
        IN (/\ adjust_duration
            /\ "duration" \in DOMAIN global_vars
            /\ QueryTime - global_vars["duration"] * TicksPerDay < c.creation_timestamp) =>
               /\ queries[n].key = c.name \o "*"
               /\ "duration" \in DOMAIN queries[n].query =>
                      queries[n].query["duration"] = AgeOf(c) \div TicksPerDay

\* C5: with adjust_duration on, the query of a rule that has its own
\* duration carries that duration, or the whole days of the cluster's age
\* when the cluster is younger than it, whatever the global duration and
\* its cap are.  Stated for the clusters that are a day old or older, whose
\* age in whole days is not 0.
C5_LocalDurationTakesPrecedence ==
    \A n \in 1..Len(queries) :
        LET c == clusters[queries[n].cluster]
            rule == rules[queries[n].rule]
        IN (/\ adjust_duration
            /\ "duration" \in DOMAIN rule
            /\ "duration" \in DOMAIN queries[n].query
            /\ AgeOf(c) >= TicksPerDay) =>
               queries[n].query["duration"] =
                   IF AgeOf(c) < rule["duration"] * TicksPerDay
                   THEN AgeOf(c) \div TicksPerDay
                   ELSE rule["duration"]

\* C6: in a returned matrix every cluster entry has one cell for each
\* configured rule, in configuration order, and every cell has exactly the
\* keys goal and sli: goal is the rule's goal times 100, sli is None or a
\* number.
C6_CellsAreComplete ==
    Returned =>
        \A n \in 1..Len(raw_report) :
            LET entry == raw_report[n][2]
            IN /\ Len(entry) = Len(rules)
               /\ \A r \in 1..Len(rules) :
                     /\ entry[r][1] = rules[r]["name"]
                     /\ DOMAIN entry[r][2] = {"goal", "sli"}
                     /\ entry[r][2]["goal"] = 100 * rules[r]["goal"]
                     /\ \/ IsNone(entry[r][2]["sli"])
                        \/ entry[r][2]["sli"] \in {Some(100 * f) : f \in OkFractions}

C6_Witness ==
    /\ Returned
    /\ Len(raw_report) > 1
    /\ Len(rules) > 1
    /\ IsNone(raw_report[1][2][1][2]["sli"])
    /\ ~IsNone(raw_report[2][2][2][2]["sli"])

\* C7: the returned matrix has one entry for each cluster of the list, and
\* the formatted report has one row for each cluster after its header row.
C7_OneRowPerCluster ==
    /\ pc \in {"returned", "formatted"} => Len(raw_report) = Len(clusters)
    /\ pc = "formatted" => Len(Val(report).out.rows) = 1 + Len(clusters)

\* C8: a cell whose sli is None is shown as the two characters "--" and
\* nothing else, in every format and with coloring on or off.
C8_NoneIsShownAsDashes ==
    (Formatted /\ IsNone(TheScores["sli"])) => ShownSli = <<"-", "-">>

\* C9: a format outside the six known ones is rejected: no run that asks
\* for one ends with a rendered report.
C9_UnknownFormatIsRejected ==
    ~(Formatted /\ Val(report).fmt \notin KnownFormats)

\* What the cut to 6 characters leaves of a 3-decimal number: all of it
\* below 100, two decimals from 100 on (for numbers below 1000).
CutTo6(thousandths) ==
    IF thousandths < 100 * 1000 THEN [places |-> 3, value |-> thousandths * Milli]
    ELSE [places |-> 2, value |-> (thousandths \div 10) * 10 * Milli]

ShowsAs(text, thousandths) ==
    /\ Len(text) - PointAt(text) = CutTo6(thousandths).places
    /\ ValueOfText(text) = CutTo6(thousandths).value

\* C10 as stated: the digits of a shown value are those of the value cut
\* off after its third decimal, so that 99.98765 is shown as 99.987.
C10_DigitsAreTruncated ==
    (Formatted /\ ~IsNone(TheScores["sli"]) /\ Val(report).fmt # "csv") =>
        ShowsAs(NumberText(ShownSli), Val(TheScores["sli"]) \div Milli)

\* C10 as amended: the digits of a shown value are those of the multiple of
\* 0.001 nearest to the value (of either neighbour when the value lies
\* halfway), cut to 6 characters: 99.98765 is shown as 99.988, a value whose
\* digits after the third decimal make more than half a thousandth has its
\* third decimal raised, and 100.0 is shown as 100.00.
C10_DigitsAreRounded ==
    (Formatted /\ ~IsNone(TheScores["sli"]) /\ Val(report).fmt # "csv") =>
        LET value == Val(TheScores["sli"])
            text == NumberText(ShownSli)
            low == value \div Milli
            rest == value % Milli
        IN /\ Len(text) <= 6
           /\ 2 * rest < Milli => ShowsAs(text, low)
           /\ 2 * rest > Milli => ShowsAs(text, low + 1)
           /\ 2 * rest = Milli => ShowsAs(text, low) \/ ShowsAs(text, low + 1)
           /\ value = 9998765 => text = <<"9", "9", ".", "9", "8", "8">>
           /\ value = 100 * One => text = <<"1", "0", "0", ".", "0", "0">>

C10_Witness ==
    /\ Formatted
    /\ TheScores["sli"] = Some(9998765)
    /\ Val(report).fmt = "html"
    /\ Val(report).color
    /\ NumberText(ShownSli) = <<"9", "9", ".", "9", "8", "8">>

\* The style of a shown cell: the class of its span, the class its escape
\* sequence colours it as, or "none" for a cell without either.
ShellClass(code) ==
    IF code = "1;31" THEN "danger"
    ELSE IF code = "1;33" THEN "caution"
    ELSE IF code = "0;32" THEN "success" ELSE "none"

StyleOf(cell) ==
    IF cell[1] = "<span class='" THEN cell[2]
    ELSE IF cell[1] = "ESC[" THEN ShellClass(cell[2]) ELSE "none"

\* C11: with coloring on, a value that is not None is styled by value - goal:
\* danger below 0, caution from 0 up to but not including 0.01, success from
\* 0.01 on (a value equal to the goal is caution, a value 0.01 over the goal
\* is success); with coloring off the value has no style, and a goal cell
\* never has one.
C11_StyleFollowsDifference ==
    (Formatted /\ ~IsNone(TheScores["sli"])) =>
        LET diff == Val(TheScores["sli"]) - TheScores["goal"]
            styled == Val(report).color /\ Val(report).fmt # "csv"
        IN /\ styled /\ diff < 0 => StyleOf(ShownSli) = "danger"
           /\ styled /\ 0 <= diff /\ diff < caution_threshold =>
                 StyleOf(ShownSli) = "caution"
           /\ styled /\ diff >= caution_threshold => StyleOf(ShownSli) = "success"
           /\ ~Val(report).color => StyleOf(ShownSli) = "none"
           /\ StyleOf(ShownGoal) = "none"

\* C12: __adjust_duration returns the whole days between the reference time
\* and the creation time, rounded down, exactly when the reference time less
\* the requested days is before the creation time, and None otherwise:
\* adjust(28, T, T - 3d) = 3, adjust(28, T, T - 40d) = None and, on the
\* boundary, adjust(28, T, T - 28d) = None.
C12_AdjustedExactlyWhenYounger ==
    pc = "adjusted" =>
        LET requested == global_vars["duration"]
            age == AgeOf(cluster)
            result == new_cluster_duration
        IN /\ QueryTime - requested * TicksPerDay < cluster.creation_timestamp =>
                 /\ ~IsNone(result)
                 /\ Val(result) * TicksPerDay <= age
                 /\ age < (Val(result) + 1) * TicksPerDay
           /\ QueryTime - requested * TicksPerDay >= cluster.creation_timestamp =>
                 IsNone(result)
           /\ requested = 28 /\ age = 3 * TicksPerDay => result = Some(3)
           /\ requested = 28 /\ age = 40 * TicksPerDay => result = None
           /\ requested = 28 /\ age = 28 * TicksPerDay => result = None

C12_Witness ==
    /\ pc = "adjusted"
    /\ global_vars["duration"] = 28
    /\ AgeOf(cluster) = 3 * TicksPerDay
    /\ new_cluster_duration = Some(3)

\* The cluster and the rule of a call of pc.custom_query.
ClusterOf(call) == clusters[call.cluster]
RuleOf(call) == rules[call.rule]

\* The cap of the global duration that __adjust_duration returns for a
\* cluster, whatever generate_report then does with it.
CapReturnedFor(c) ==
    IF adjust_duration /\ "duration" \in DOMAIN global_vars
    THEN AdjustDuration(global_vars["duration"], QueryTime, c.creation_timestamp)
    ELSE None

\* No duration of the configuration reaches back before the cluster.
OldEnough(c) ==
    /\ AgeOf(c) >= GlobalDuration * TicksPerDay
    /\ AgeOf(c) >= LocalDuration * TicksPerDay

\* C13: the variables of a query are taken, on a collision of names, from
\* the highest of: the global variables, the rule's own variables, the
\* computed selector, the cluster's cap of the duration.  A rule's variable
\* wins over the global one of its name, the computed selector wins over
\* any variable named sel, and the cluster's capped duration wins over the
\* global and the rule's own duration.
C13_HigherSourceWins ==
    \A n \in 1..Len(queries) :
        LET q == queries[n].query
            rule == RuleOf(queries[n])
            c == ClusterOf(queries[n])
            cap == CapReturnedFor(c)
        IN /\ "sel" \in DOMAIN q => q["sel"] = Selector(c)
           /\ "job" \in DOMAIN q =>
                 q["job"] = IF "job" \in DOMAIN rule THEN rule["job"]
                            ELSE global_vars["job"]
           /\ ("duration" \in DOMAIN q /\ ~IsNone(cap)) => q["duration"] = Val(cap)
           /\ ("duration" \in DOMAIN q /\ (~adjust_duration \/ OldEnough(c))) =>
                 q["duration"] = IF "duration" \in DOMAIN rule THEN rule["duration"]
                                 ELSE global_vars["duration"]

\* C14: a run of generate_report that returns has issued exactly one query
\* for each (cluster, rule) pair, all rules of a cluster in the order of the
\* configuration before any rule of the next cluster; at no time has a
\* query been issued twice, after a failure or otherwise.
C14_OneQueryPerPairInOrder ==
    /\ \A n \in 1..Len(queries) :
          /\ queries[n].cluster = ((n - 1) \div Len(rules)) + 1
          /\ queries[n].rule = ((n - 1) % Len(rules)) + 1
    /\ Returned => Len(queries) = Len(clusters) * Len(rules)

C14_Witness ==
    /\ Returned
    /\ Len(clusters) > 1
    /\ Len(rules) > 1
    /\ queries[1].failed
    /\ <<queries[2].cluster, queries[2].rule>> = <<1, 2>>
    /\ <<queries[3].cluster, queries[3].rule>> = <<2, 1>>
    /\ Last(queries).failed

\* C15: generate_report changes neither the list it is given nor a Cluster
\* of it.  After a run that capped a cluster the caller's Cluster has the
\* name it had, so that a second run on the list gives the keys of the
\* first: the name with one "*", never with "**".
C15_ListStep == clusters' = clusters

C15_SecondRunSameKeys ==
    (Returned /\ ~IsNone(first_keys)) =>
        /\ Keys(raw_report) = Val(first_keys)
        /\ \A n \in 1..Len(raw_report) :
              /\ raw_report[n][1] # "a**"
              /\ \E c \in 1..Len(clusters) :
                    raw_report[n][1] \in {clusters[c].name, clusters[c].name \o "*"}

C15_CallersListIsKept ==
    /\ [][C15_ListStep]_vars
    /\ [](C15_SecondRunSameKeys)

C15_Witness ==
    /\ Returned
    /\ first_keys = Some(<<"a*">>)
    /\ Keys(raw_report) = <<"a*">>
    /\ clusters[1].name = "a"
    /\ Truthy(new_cluster_duration)

\* The grant requests among the requests a client has sent.
Grants(client) == SelectSeq(client.requests, LAMBDA r : r.method = "POST")

\* C16 as stated: over any sequence of search_clusters calls on one client
\* at most one refresh-token grant request is sent to the issuer.
C16_AtMostOneGrant == Len(Grants(uhc)) <= 1

\* C16 as amended: every call of search_clusters sends one refresh-token
\* grant request of its own, before its request for the clusters: a client
\* has sent as many grant requests as it has been called, and every request
\* for the clusters follows a grant request at once.
C16_OneGrantPerCall ==
    /\ Len(Grants(uhc)) = uhc.calls
    /\ \A n \in 1..Len(uhc.requests) :
          uhc.requests[n].method = "GET" =>
              n > 1 /\ uhc.requests[n - 1].method = "POST"

C16_Witness ==
    /\ uhc.calls = 2
    /\ Len(Grants(uhc)) = 2
    /\ Len(uhc.requests) = 4
    /\ uhc.returned = Some(Returns(ClusterList(<<Item(1, 3, 1)>>)))

\* The duration the configuration gives a rule: its own, or the global one.
ConfiguredDuration(rule) ==
    IF "duration" \in DOMAIN rule THEN rule["duration"] ELSE global_vars["duration"]

\* C17: whenever a cluster was created, also after the reference time, the
\* duration a query carries is not negative and not larger than the
\* duration the configuration gives its rule.
C17_DurationWithinBounds ==
    \A n \in 1..Len(queries) :
        "duration" \in DOMAIN queries[n].query =>
            /\ queries[n].query["duration"] >= 0
            /\ queries[n].query["duration"] <= ConfiguredDuration(RuleOf(queries[n]))

====
